---- MODULE Spec2Model ----
(***************************************************************************)
(* A model of steam_screenshot_rebinder: the atomic replacer               *)
(* (core/replacer.py) working on a small file system, the hotkey           *)
(* scheduler (core/autoscreen.py) polled with integer timestamps, the      *)
(* window's timer, preview and replace handlers (ui/main_window.py), and   *)
(* the pairing and scanning functions (core/mapping.py, core/scanner.py).  *)
(*                                                                         *)
(* A path is a record [dir, stem, suffix]; a file's content is a sequence  *)
(* of "bytes": an image file is <<format, colour mode, pixel, ...>>.       *)
(* Message texts of the source are Russian; the model keeps their meaning  *)
(* in ASCII.                                                               *)
(***************************************************************************)
EXTENDS Integers, Sequences, FiniteSets, TLC

VARIABLES
    fs,          \* the file system: a function from the paths that exist to their content
    pairs,       \* replace_many's argument: the sequence of (old, new) pairs
    force_format,\* replace_many's argument force_format
    dry_run,     \* replace_many's argument dry_run
    pc,          \* where the replacer is: "idle", "loop", "mktemp", "write"
    idx,         \* replace_many's loop position (1-based index of the pair in hand)
    results,     \* replace_many's list of ReplaceResult
    call,        \* the locals of the replace_one call in progress
    pre,         \* the file system as it was when the replace_one call in hand began
    count,       \* AutoScreener.count
    interval,    \* AutoScreener.interval
    start_delay, \* AutoScreener.start_delay
    started_at,  \* AutoScreener._started_at
    next_fire,   \* AutoScreener._next_fire
    remaining,   \* AutoScreener._remaining
    state,       \* AutoScreener._state
    clock,       \* the latest timestamp handed to the scheduler (monotonic)
    emitted,     \* key presses sent since the last start()
    last,        \* the last scheduler call: its name, timestamp, presses sent, whether it raised
    autos,       \* who drives the scheduler, and MainWindow._autos_runner / _autos_timer
    win,         \* MainWindow's replace flow: _replace_queue, _replace_index, busy, the log
    pure         \* the call of a function of core/mapping.py or core/scanner.py in hand

rvars == <<fs, pairs, force_format, dry_run, pc, idx, results, call, pre>>
svars == <<count, interval, start_delay, started_at, next_fire, remaining, state,
           clock, emitted, last>>
gvars == <<autos, win>>
mvars == <<pure>>
vars == <<rvars, svars, gvars, mvars>>

\* ------------------------------------------------------------------ bounds

MaxPairs == 2
MaxCount == 3
MaxInterval == 2
MaxDelay == 2
MaxTime == 6
MaxRuns == 2

\* ------------------------------------------------------------- paths, files

None == "None"

Path(d, s, x) == [dir |-> d, stem |-> s, suffix |-> x]

\* str.lower() on the suffixes and format tokens the model uses
Lower(s) ==
    CASE s = ".JPG" -> ".jpg"
      [] s = ".PNG" -> ".png"
      [] s = ".JPEG" -> ".jpeg"
      [] s = "JPG" -> "jpg"
      [] s = "JPEG" -> "jpeg"
      [] s = "PNG" -> "png"
      [] s = "WebP" -> "webp"
      [] OTHER -> s

\* str.upper() on the format names Pillow reports
Upper(s) ==
    CASE s = "jpeg" -> "JPEG"
      [] s = "png" -> "PNG"
      [] s = "gif" -> "GIF"
      [] OTHER -> s

OldA == Path("old", "a", ".jpg")
OldB == Path("old", "b", ".png")
OldC == Path("old", "c", ".jpg")
OldT == Path("old", "t", ".png")
OldM == Path("old", "m", ".jpg")
NewX == Path("new", "x", ".jpg")
NewY == Path("new", "y", ".PNG")
NewZ == Path("new", "z", ".dat")
NewM == Path("new", "m", ".png")

OldFiles == {OldA, OldB, OldC, OldT, OldM}
NewFiles == {NewX, NewY, NewZ, NewM}

\* The files on disk before the first call.  a: a JPEG; b: a palette PNG;
\* c: not an image; t: a PNG cut off after its header; m: absent.
InitialFs ==
    (OldA :> <<"JPEG", "RGB", 3, 1>>) @@
    (OldB :> <<"PNG", "P", 1, 2, 3>>) @@
    (OldC :> <<"junk">>) @@
    (OldT :> <<"PNG">>) @@
    (NewX :> <<"JPEG", "L", 0>>) @@
    (NewY :> <<"PNG", "RGBA", 2, 2>>) @@
    (NewZ :> <<"GIF", "P", 1>>)

exists(p) == p \in DOMAIN fs
st_size(p) == Len(fs[p])

\* --------------------------------------------------------- the image codec

Formats == {"JPEG", "PNG", "GIF"}
Modes == {"RGB", "L", "P", "LA", "RGBA"}

\* Image.open(path) succeeds: the header names a format Pillow knows
CanOpen(c) == Len(c) >= 1 /\ c[1] \in Formats
\* the pixel data can be loaded as well (im.save needs it)
CanLoad(c) == CanOpen(c) /\ Len(c) >= 3 /\ c[2] \in Modes

Pixels(c) == SubSeq(c, 3, Len(c))

\* JPEG is lossy: a pixel loses its low bit
Quantise(px) == [i \in 1..Len(px) |-> px[i] - (px[i] % 2)]

\* what im.save(tmp_path, format=fmt) writes for the image stored in c
EncodeImage(c, fmt) ==
    IF fmt = "JPEG"
    THEN <<"JPEG", IF c[2] \notin {"RGB", "L"} THEN "RGB" ELSE c[2]>> \o Quantise(Pixels(c))
    ELSE <<"PNG", IF c[2] \in {"P", "LA"} THEN "RGBA" ELSE c[2]>> \o Pixels(c)

\* ---------------------------------------------------------------- replacer

ReplaceResult(o, n, a, bb, ba, k, e) ==
    [old |-> o, new |-> n, action |-> a, bytes_before |-> bb, bytes_after |-> ba,
     ok |-> k, error |-> e]

ForceTokens == {None, "jpg", "JPEG", "PNG", "WebP", ""}

\* the test as it would be if the empty token were rejected too
target_format_raises_on_empty(ff) ==
    ff # None /\ Lower(ff) \notin {"jpg", "jpeg", "png"}

\* _target_format_for raises ValueError
target_format_raises(ff) ==
    ff # None /\ ff # "" /\ Lower(ff) \notin {"jpg", "jpeg", "png"}

target_format_for(new_path, ff) ==
    IF ff # None /\ ff # ""
    THEN IF Lower(ff) \in {"jpg", "jpeg"} THEN "JPEG" ELSE "PNG"
    ELSE IF Lower(new_path.suffix) \in {".jpg", ".jpeg"} THEN "JPEG"
         ELSE IF Lower(new_path.suffix) = ".png" THEN "PNG"
         ELSE "JPEG"

\* the detection in replace_one: the format Pillow reports, None if it cannot open the file
src_format(c) == IF CanOpen(c) THEN Upper(c[1]) ELSE None

\* the temporary file as it would be without dir=dst_dir
TmpPathInSystemTemp(dst_path) == Path("tmp", "tmp" \o dst_path.suffix, ".tmp")

\* the path NamedTemporaryFile creates next to dst_path
TmpPath(dst_path) == Path(dst_path.dir, "tmp" \o dst_path.suffix, ".tmp")

\* how many bytes one write of write_fn adds (the copy buffer of copyfileobj, scaled
\* down to the model's file sizes)
ChunkLen == 2

NoCall == [old |-> None, new |-> None, tmp |-> None, bytes_before |-> 0,
           action |-> None, target |-> None]

old_path == pairs[idx][1]
new_path == pairs[idx][2]

bytes_before == IF exists(new_path) THEN st_size(new_path) ELSE 0

\* replace_many as it would be with a break after a failed outcome
ReturnAbortsOnFailure(res) ==
    /\ results' = Append(results, res)
    /\ idx' = IF res.ok THEN idx + 1 ELSE Len(pairs) + 1
    /\ call' = NoCall
    /\ pc' = "loop"

\* one replace_one call returns res to replace_many, which appends it and moves on
Return(res) ==
    /\ results' = Append(results, res)
    /\ idx' = idx + 1
    /\ call' = NoCall
    /\ pc' = "loop"

\* replace_many is called; dry_run is chosen per call
replace_many ==
    /\ pc = "idle"
    /\ dry_run' \in BOOLEAN
    /\ results' = <<>>
    /\ idx' = 1
    /\ pc' = "loop"
    /\ pre' = fs
    /\ UNCHANGED <<fs, pairs, force_format, call>>

replace_many_return ==
    /\ pc = "loop"
    /\ idx > Len(pairs)
    /\ pc' = "idle"
    /\ UNCHANGED <<fs, pairs, force_format, dry_run, idx, results, call, pre>>

InLoop == pc = "loop" /\ idx <= Len(pairs)

\* replace_one as it would be with the existence checks ahead of the dry_run check
replace_one_dry_run_checks_files ==
    /\ InLoop
    /\ dry_run
    /\ pre' = fs
    /\ Return(ReplaceResult(old_path, new_path, "dry-run", bytes_before, bytes_before,
                            exists(old_path) /\ exists(new_path),
                            IF ~exists(old_path) THEN "OLD not found"
                            ELSE IF ~exists(new_path) THEN "NEW not found" ELSE None))
    /\ UNCHANGED <<fs, pairs, force_format, dry_run>>

replace_one_dry_run ==
    /\ InLoop
    /\ dry_run
    /\ pre' = fs
    /\ Return(ReplaceResult(old_path, new_path, "dry-run", bytes_before, bytes_before,
                            TRUE, None))
    /\ UNCHANGED <<fs, pairs, force_format, dry_run>>

replace_one_missing ==
    /\ InLoop
    /\ ~dry_run
    /\ ~exists(old_path) \/ ~exists(new_path)
    /\ pre' = fs
    /\ Return(ReplaceResult(old_path, new_path, "dry-run", bytes_before, bytes_before,
                            FALSE,
                            IF ~exists(old_path) THEN "OLD not found" ELSE "NEW not found"))
    /\ UNCHANGED <<fs, pairs, force_format, dry_run>>

replace_one_bad_format ==
    /\ InLoop
    /\ ~dry_run
    /\ exists(old_path) /\ exists(new_path)
    /\ target_format_raises(force_format)
    /\ pre' = fs
    /\ Return(ReplaceResult(old_path, new_path, "error", bytes_before, bytes_before,
                            FALSE, "unknown force_format"))
    /\ UNCHANGED <<fs, pairs, force_format, dry_run>>

\* the branch replace_one takes for an origin with content c
replace_action(c, target_fmt, ff) ==
    IF src_format(c) = target_fmt /\ ff = None
    THEN "copy-bytes"
    ELSE "reencode->" \o target_fmt

\* replace_one as it would be if the byte-copy test forgot force_format
replace_one_begin_ignores_force ==
    /\ InLoop
    /\ ~dry_run
    /\ exists(old_path) /\ exists(new_path)
    /\ ~target_format_raises(force_format)
    /\ pre' = fs
    /\ LET target_fmt == target_format_for(new_path, force_format)
           src_fmt == src_format(fs[old_path])
       IN call' = [old |-> old_path, new |-> new_path, tmp |-> None,
                   bytes_before |-> bytes_before,
                   action |-> IF src_fmt = target_fmt
                              THEN "copy-bytes"
                              ELSE "reencode->" \o target_fmt,
                   target |-> target_fmt]
    /\ pc' = "mktemp"
    /\ UNCHANGED <<fs, pairs, force_format, dry_run, idx, results>>

\* replace_one up to the call of _copy_bytes_atomic or _reencode_atomic
replace_one_begin ==
    /\ InLoop
    /\ ~dry_run
    /\ exists(old_path) /\ exists(new_path)
    /\ ~target_format_raises(force_format)
    /\ pre' = fs
    /\ LET target_fmt == target_format_for(new_path, force_format)
       IN call' = [old |-> old_path, new |-> new_path, tmp |-> None,
                   bytes_before |-> bytes_before,
                   action |-> replace_action(fs[old_path], target_fmt, force_format),
                   target |-> target_fmt]
    /\ pc' = "mktemp"
    /\ UNCHANGED <<fs, pairs, force_format, dry_run, idx, results>>

\* _write_atomic creates the empty temporary file in the destination's directory
write_atomic_mktemp ==
    /\ pc = "mktemp"
    /\ LET tmp_path == TmpPath(call.new)
       IN /\ fs' = (tmp_path :> <<>>) @@ fs
          /\ call' = [call EXCEPT !.tmp = tmp_path]
    /\ pc' = "write"
    /\ UNCHANGED <<pairs, force_format, dry_run, idx, results, pre>>

\* write_fn can read its source: what it writes to the temporary file in the end
CanWrite == call.action = "copy-bytes" \/ CanLoad(fs[call.old])
NewContent ==
    IF call.action = "copy-bytes" THEN fs[call.old] ELSE EncodeImage(fs[call.old], call.target)

\* write_fn as it would be if it were handed dst_path instead of tmp_path
do_write_chunk_in_place ==
    /\ pc = "write"
    /\ CanWrite
    /\ Len(fs[call.tmp]) < Len(NewContent)
    /\ fs' = [fs EXCEPT ![call.new] = SubSeq(NewContent, 1, ChunkLen)]
    /\ UNCHANGED <<pairs, force_format, dry_run, pc, idx, results, call, pre>>

\* write_fn writes the next chunk to the temporary file
do_write_chunk ==
    /\ pc = "write"
    /\ CanWrite
    /\ Len(fs[call.tmp]) < Len(NewContent)
    /\ LET upto == IF Len(fs[call.tmp]) + ChunkLen < Len(NewContent)
                   THEN Len(fs[call.tmp]) + ChunkLen ELSE Len(NewContent)
       IN fs' = [fs EXCEPT ![call.tmp] = SubSeq(NewContent, 1, upto)]
    /\ UNCHANGED <<pairs, force_format, dry_run, pc, idx, results, call, pre>>

\* the except branch as it would be without the unlink of the temporary file
FailedLeavesTmp(msg) ==
    /\ fs' = fs
    /\ Return(ReplaceResult(call.old, call.new, "error", call.bytes_before,
                            call.bytes_before, FALSE, msg))
    /\ UNCHANGED <<pairs, force_format, dry_run, pre>>

\* the except branch of _write_atomic and then of replace_one
Failed(msg) ==
    /\ fs' = [p \in DOMAIN fs \ {call.tmp} |-> fs[p]]
    /\ Return(ReplaceResult(call.old, call.new, "error", call.bytes_before,
                            call.bytes_before, FALSE, msg))
    /\ UNCHANGED <<pairs, force_format, dry_run, pre>>

\* Image.open or the decoding inside im.save raises: the origin is no readable image
do_write_unreadable ==
    /\ pc = "write"
    /\ ~CanWrite
    /\ Failed("cannot identify image file")

\* the disk fails under write_fn or under os.replace
do_write_io_error ==
    /\ pc = "write"
    /\ CanWrite
    /\ Failed("I/O error")

\* os.replace(tmp_path, dst_path), then replace_one's success return
os_replace ==
    /\ pc = "write"
    /\ CanWrite
    /\ Len(fs[call.tmp]) = Len(NewContent)
    /\ fs' = [p \in DOMAIN fs \ {call.tmp} |-> IF p = call.new THEN fs[call.tmp] ELSE fs[p]]
    /\ Return(ReplaceResult(call.old, call.new, call.action, call.bytes_before,
                            Len(fs[call.tmp]), TRUE, None))
    /\ UNCHANGED <<pairs, force_format, dry_run, pre>>

\* the pair lists replace_many is given: distinct origins and distinct destinations
PairLists ==
    {ps \in UNION {[1..n -> OldFiles \X NewFiles] : n \in 0..MaxPairs} :
        \A i, j \in DOMAIN ps : i # j => ps[i][1] # ps[j][1] /\ ps[i][2] # ps[j][2]}

\* --------------------------------------------------------------- scheduler

\* a timestamp attribute that is None (timestamps are >= 0)
NoTime == -1

\* the Python expression (x or now): None and 0.0 are both falsy
OrNow(x, now) == IF x = NoTime \/ x = 0 THEN now ELSE x

LastCall(op, now, presses, raised) ==
    [op |-> op, now |-> now, presses |-> presses, raised |-> raised,
     first |-> (last.op = "start")]

\* AutoScreener.__init__ with arguments that pass its validation
AutoScreener(c, i, d) ==
    /\ count = c /\ interval = i /\ start_delay = d
    /\ started_at = NoTime
    /\ next_fire = NoTime
    /\ remaining = c
    /\ state = "idle"
    /\ clock = 0
    /\ emitted = 0
    /\ last = [op |-> "init", now |-> 0, presses |-> 0, raised |-> FALSE, first |-> FALSE]

start(now) ==
    /\ started_at' = now
    /\ next_fire' = now + start_delay
    /\ remaining' = count
    /\ state' = IF start_delay > 0 THEN "countdown" ELSE "running"
    /\ clock' = now
    /\ emitted' = 0
    /\ last' = LastCall("start", now, 0, FALSE)
    /\ UNCHANGED <<count, interval, start_delay>>

\* stop as it would be if it forgot the countdown state
stop_only_when_running ==
    /\ state' = IF state = "running" THEN "stopped" ELSE state
    /\ last' = LastCall("stop", clock, 0, FALSE)
    /\ UNCHANGED <<count, interval, start_delay, started_at, next_fire, remaining,
                   clock, emitted>>

\* stop as it would be if it put the scheduler back to idle
stop_resets_to_idle ==
    /\ state' = "idle"
    /\ last' = LastCall("stop", clock, 0, FALSE)
    /\ UNCHANGED <<count, interval, start_delay, started_at, next_fire, remaining,
                   clock, emitted>>

stop ==
    /\ state' = "stopped"
    /\ last' = LastCall("stop", clock, 0, FALSE)
    /\ UNCHANGED <<count, interval, start_delay, started_at, next_fire, remaining,
                   clock, emitted>>

\* the firing loop as it would be with an if in place of the while
FireOnce(rem, nf, now, k, failAt) ==
    IF rem > 0 /\ now >= OrNow(nf, now)
    THEN IF k + 1 = failAt
         THEN [remaining |-> rem, next_fire |-> nf, presses |-> k, raised |-> TRUE]
         ELSE [remaining |-> rem - 1, next_fire |-> OrNow(nf, now) + interval,
               presses |-> k + 1, raised |-> FALSE]
    ELSE [remaining |-> rem, next_fire |-> nf, presses |-> k, raised |-> FALSE]

\* the firing loop as it would be if it counted a press down before sending it
RECURSIVE FireLoopCountsFirst(_, _, _, _, _)
FireLoopCountsFirst(rem, nf, now, k, failAt) ==
    IF rem > 0 /\ now >= OrNow(nf, now)
    THEN IF k + 1 = failAt
         THEN [remaining |-> rem - 1, next_fire |-> nf, presses |-> k, raised |-> TRUE]
         ELSE FireLoopCountsFirst(rem - 1, OrNow(nf, now) + interval, now, k + 1, failAt)
    ELSE [remaining |-> rem, next_fire |-> nf, presses |-> k, raised |-> FALSE]

\* the while loop of tick, from remaining rem and next fire nf, k presses sent so far;
\* the sender raises on press number failAt of this call (0: it never raises)
RECURSIVE FireLoop(_, _, _, _, _)
FireLoop(rem, nf, now, k, failAt) ==
    IF rem > 0 /\ now >= OrNow(nf, now)
    THEN IF k + 1 = failAt
         THEN [remaining |-> rem, next_fire |-> nf, presses |-> k, raised |-> TRUE]
         ELSE FireLoop(rem - 1, OrNow(nf, now) + interval, now, k + 1, failAt)
    ELSE [remaining |-> rem, next_fire |-> nf, presses |-> k, raised |-> FALSE]

\* the state tick is in when it reaches its firing loop
AfterCountdown(now) ==
    IF state = "countdown" /\ now >= OrNow(next_fire, now) THEN "running" ELSE state

\* the end of tick as it would be without the transition to done
StateAfterFiringNeverDone(r) == "running"

\* the end of tick: done once nothing remains (not reached when the sender raised)
StateAfterFiring(r) == IF ~r.raised /\ r.remaining = 0 THEN "done" ELSE "running"

tick(now, failAt) ==
    /\ clock' = now
    /\ UNCHANGED <<count, interval, start_delay, started_at>>
    /\ IF state \in {"done", "stopped", "idle"}
       THEN /\ failAt = 0
            /\ last' = LastCall("tick", now, 0, FALSE)
            /\ UNCHANGED <<next_fire, remaining, state, emitted>>
       ELSE IF AfterCountdown(now) = "running"
       THEN LET r == FireLoop(remaining, next_fire, now, 0, failAt)
            IN /\ (failAt = 0) = ~r.raised
               /\ remaining' = r.remaining
               /\ next_fire' = r.next_fire
               /\ emitted' = emitted + r.presses
               /\ state' = StateAfterFiring(r)
               /\ last' = LastCall("tick", now, r.presses, r.raised)
       ELSE /\ failAt = 0
            /\ last' = LastCall("tick", now, 0, FALSE)
            /\ UNCHANGED <<next_fire, remaining, state, emitted>>

Start == \E now \in clock..MaxTime : start(now)
Stop == stop
Tick == \E now \in clock..MaxTime : tick(now, 0)
TickSenderRaises == \E now \in clock..MaxTime : \E failAt \in 1..count : tick(now, failAt)

SchedulerParked == AutoScreener(1, 1, 0)

\* ------------------------------------------- the window's autoscreen handlers

Autos(d, r, t) == [driver |-> d, runner |-> r, timer |-> t]

\* the scheduler is driven through its methods alone; MainWindow is not in play
AutosParked == autos = Autos("api", FALSE, FALSE)

\* MainWindow.__init__: nothing previewed, Replace disabled
Window ==
    [queue |-> <<>>, index |-> 0, busy |-> FALSE, replace_btn |-> FALSE,
     opts |-> [dry |-> TRUE, ff |-> None], log |-> <<>>, raised |-> FALSE, runs |-> 0]

WinParked == win = Window

\* MainWindow.on_autoscreen_start: a new AutoScreener is built from the spin boxes and
\* started, and the timer is started
on_autoscreen_start ==
    /\ autos.driver = "gui"
    /\ ~autos.runner
    /\ \E c \in 1..MaxCount : \E i \in 1..MaxInterval : \E d \in 0..MaxDelay :
       \E now \in clock..MaxTime :
          /\ count' = c /\ interval' = i /\ start_delay' = d
          /\ started_at' = now
          /\ next_fire' = now + d
          /\ remaining' = c
          /\ state' = IF d > 0 THEN "countdown" ELSE "running"
          /\ clock' = now
          /\ emitted' = 0
          /\ last' = LastCall("start", now, 0, FALSE)
    /\ autos' = Autos("gui", TRUE, TRUE)

\* MainWindow.on_autoscreen_stop
on_autoscreen_stop ==
    /\ autos.driver = "gui"
    /\ autos.runner
    /\ stop
    /\ autos' = Autos("gui", FALSE, FALSE)

\* MainWindow._autos_tick, called by the running timer; tick returns
autos_tick ==
    /\ autos.driver = "gui"
    /\ autos.timer
    /\ IF ~autos.runner
       THEN /\ autos' = Autos("gui", FALSE, FALSE)
            /\ UNCHANGED svars
       ELSE /\ \E now \in clock..MaxTime : tick(now, 0)
            /\ autos' = IF state' \in {"done", "stopped"}
                        THEN Autos("gui", FALSE, FALSE)
                        ELSE autos

\* _autos_tick as it would be if its except branch kept the timer and the runner
autos_tick_sender_raises_keeps_running ==
    /\ autos.driver = "gui"
    /\ autos.timer
    /\ autos.runner
    /\ \E now \in clock..MaxTime : \E failAt \in 1..count : tick(now, failAt)
    /\ autos' = autos

\* MainWindow._autos_tick when tick raises: the except branches stop the timer and
\* drop the runner
autos_tick_sender_raises ==
    /\ autos.driver = "gui"
    /\ autos.timer
    /\ autos.runner
    /\ \E now \in clock..MaxTime : \E failAt \in 1..count : tick(now, failAt)
    /\ autos' = Autos("gui", FALSE, FALSE)

PureParked == pure = [fn |-> "none", args |-> <<>>, done |-> FALSE, out |-> <<>>]

ReplacerParked ==
    /\ fs = InitialFs
    /\ pairs = <<>>
    /\ force_format = None
    /\ dry_run = FALSE
    /\ pc = "idle"
    /\ idx = 1
    /\ results = <<>>
    /\ call = NoCall
    /\ pre = InitialFs

Init ==
    /\ fs = InitialFs
    /\ pairs \in PairLists
    /\ force_format \in ForceTokens
    /\ dry_run = FALSE
    /\ pc = "idle"
    /\ idx = 1
    /\ results = <<>>
    /\ call = NoCall
    /\ pre = InitialFs
    /\ SchedulerParked
    /\ AutosParked
    /\ WinParked
    /\ PureParked

Next ==
    \/ replace_many /\ UNCHANGED <<svars, gvars, mvars>>
    \/ replace_many_return /\ UNCHANGED <<svars, gvars, mvars>>
    \/ replace_one_dry_run /\ UNCHANGED <<svars, gvars, mvars>>
    \/ replace_one_missing /\ UNCHANGED <<svars, gvars, mvars>>
    \/ replace_one_bad_format /\ UNCHANGED <<svars, gvars, mvars>>
    \/ replace_one_begin /\ UNCHANGED <<svars, gvars, mvars>>
    \/ write_atomic_mktemp /\ UNCHANGED <<svars, gvars, mvars>>
    \/ do_write_chunk /\ UNCHANGED <<svars, gvars, mvars>>
    \/ do_write_unreadable /\ UNCHANGED <<svars, gvars, mvars>>
    \/ do_write_io_error /\ UNCHANGED <<svars, gvars, mvars>>
    \/ os_replace /\ UNCHANGED <<svars, gvars, mvars>>

Spec == Init /\ [][Next]_vars

InitSched ==
    /\ \E c \in 1..MaxCount : \E i \in 1..MaxInterval : \E d \in 0..MaxDelay :
          AutoScreener(c, i, d)
    /\ ReplacerParked
    /\ AutosParked
    /\ WinParked
    /\ PureParked

NextSched ==
    \/ Start /\ UNCHANGED <<rvars, gvars, mvars>>
    \/ Stop /\ UNCHANGED <<rvars, gvars, mvars>>
    \/ Tick /\ UNCHANGED <<rvars, gvars, mvars>>
    \/ TickSenderRaises /\ UNCHANGED <<rvars, gvars, mvars>>

SpecSched == InitSched /\ [][NextSched]_vars

\* the scheduler driven either through its methods alone or by the window's handlers
InitAutos ==
    /\ \/ /\ autos = Autos("api", FALSE, FALSE)
          /\ \E c \in 1..MaxCount : \E i \in 1..MaxInterval : \E d \in 0..MaxDelay :
                AutoScreener(c, i, d)
       \/ /\ autos = Autos("gui", FALSE, FALSE)
          /\ SchedulerParked
    /\ ReplacerParked
    /\ PureParked
    /\ WinParked

NextAutos ==
    \/ autos.driver = "api" /\ Start /\ UNCHANGED <<rvars, gvars, mvars>>
    \/ autos.driver = "api" /\ Stop /\ UNCHANGED <<rvars, gvars, mvars>>
    \/ autos.driver = "api" /\ Tick /\ UNCHANGED <<rvars, gvars, mvars>>
    \/ autos.driver = "api" /\ TickSenderRaises /\ UNCHANGED <<rvars, gvars, mvars>>
    \/ on_autoscreen_start /\ UNCHANGED <<rvars, mvars, win>>
    \/ on_autoscreen_stop /\ UNCHANGED <<rvars, mvars, win>>
    \/ autos_tick /\ UNCHANGED <<rvars, mvars, win>>
    \/ autos_tick_sender_raises /\ UNCHANGED <<rvars, mvars, win>>

SpecAutos == InitAutos /\ [][NextAutos]_vars

\* ------------------------------------------------------ mapping and scanner

MaxFiles == 3
MaxLimit == 3
MaxEntries == 3

\* the argument n (or limit) that is None; a limit given is a count, >= 0
NoLimit == -1

Pair(o, n) == [old |-> o, new |-> n]

min(a, b) == IF a <= b THEN a ELSE b

\* the Python slice s[:n] for n >= 0
Slice(s, n) == SubSeq(s, 1, min(n, Len(s)))

\* [f(o, nw) for o, nw in zip(a, b)]
zip(a, b) == [i \in 1..min(Len(a), Len(b)) |-> Pair(a[i], b[i])]

\* build_pairs: the n it works with
build_pairs_n(old_files, new_files, n) ==
    IF n = NoLimit THEN min(Len(old_files), Len(new_files)) ELSE n

\* the pairing as it would be without the slices
build_pairs_zip_whole(old_files, new_files, n) == zip(old_files, new_files)

\* build_pairs: the list of pairs (n is the n it works with)
build_pairs_zip(old_files, new_files, n) == zip(Slice(old_files, n), Slice(new_files, n))

Warning(k, n, o, nw) == [kind |-> k, n |-> n, old |-> o, new |-> nw]

\* the first warning as it would be if it were tied to n instead of the two lengths
mismatch_warning_when_limited(old_files, new_files, n) ==
    IF n < Len(old_files) \/ n < Len(new_files)
    THEN <<Warning("pairs used", n, Len(old_files), Len(new_files))>>
    ELSE <<>>

\* build_pairs: "Будет использовано пар: n (OLD=.., NEW=..)"
mismatch_warning(old_files, new_files, n) ==
    IF Len(old_files) # Len(new_files)
    THEN <<Warning("pairs used", n, Len(old_files), Len(new_files))>>
    ELSE <<>>

\* build_pairs: "Ограничение по количеству: n (OLD=.., NEW=..)"
limit_warning(old_files, new_files, n) ==
    IF Len(old_files) < n \/ Len(new_files) < n
    THEN <<Warning("limit", n, Len(old_files), Len(new_files))>>
    ELSE <<>>

build_pairs(old_files, new_files, n0, strict_equal) ==
    LET n == build_pairs_n(old_files, new_files, n0)
    IN IF strict_equal /\ Len(old_files) # Len(new_files)
       THEN [raised |-> "ValueError", pairs |-> <<>>, warnings |-> <<>>]
       ELSE [raised |-> None,
             pairs |-> build_pairs_zip(old_files, new_files, n),
             warnings |-> mismatch_warning(old_files, new_files, n)
                          \o limit_warning(old_files, new_files, n)]

\* a directory path: it does not exist, it is a file, or it is a directory whose
\* iterdir() yields entries in the order given
Missing == [kind |-> "missing", entries |-> <<>>]
NotADir == [kind |-> "file", entries |-> <<>>]
Dir(es) == [kind |-> "dir", entries |-> es]

Entry(p, k) == [path |-> p, kind |-> k]

\* what a directory may hold: two images, a text file, a folder named like an image
DirEntries(d) ==
    {Entry(Path(d, "a", ".jpg"), "file"), Entry(Path(d, "b", ".PNG"), "file"),
     Entry(Path(d, "n", ".txt"), "file"), Entry(Path(d, "s", ".jpg"), "dir")}

Listings(d) ==
    {es \in UNION {[1..k -> DirEntries(d)] : k \in 0..MaxEntries} :
        \A i, j \in DOMAIN es : i # j => es[i] # es[j]}

Trees(d) == {Missing, NotADir} \cup {Dir(es) : es \in Listings(d)}

DefaultExts == {".jpg", ".png"}

\* list_images_raw raises
list_images_raises(t) ==
    CASE t.kind = "missing" -> "FileNotFoundError"
      [] t.kind = "file" -> "NotADirectoryError"
      [] OTHER -> None

IsImageEntry(e, exts) == e.kind = "file" /\ Lower(e.path.suffix) \in exts

\* what a folder inside the directory holds: an image of its own
Nested(e) ==
    IF e.kind = "dir"
    THEN <<Entry(Path(e.path.dir \o "/" \o e.path.stem \o e.path.suffix, "thumb1", ".jpg"),
                 "file")>>
    ELSE <<>>

RECURSIVE walk(_, _)
walk(es, i) == IF i > Len(es) THEN <<>> ELSE <<es[i]>> \o Nested(es[i]) \o walk(es, i + 1)

\* the listing as it would be if it descended into folders
rglob(t) == walk(t.entries, 1)

\* dir_path.iterdir(): the direct entries, in the order the OS gives them
iterdir(t) == t.entries

\* list_images_raw's result for a directory
list_images_raw(t, exts) ==
    LET kept == SelectSeq(iterdir(t), LAMBDA e : IsImageEntry(e, exts))
    IN [i \in 1..Len(kept) |-> kept[i].path]

ScanResult(r, o, nw, w) == [raised |-> r, old |-> o, new |-> nw, warnings |-> w]

\* scan_old_new as it would be without the cut to the number of NEW files
scan_old_new_keeps_n(old_dir, new_dir, n0) ==
    IF list_images_raises(old_dir) # None
    THEN ScanResult(list_images_raises(old_dir), <<>>, <<>>, <<>>)
    ELSE IF list_images_raises(new_dir) # None
    THEN ScanResult(list_images_raises(new_dir), <<>>, <<>>, <<>>)
    ELSE LET old_files == list_images_raw(old_dir, DefaultExts)
             new_files == list_images_raw(new_dir, DefaultExts)
             n == IF n0 = NoLimit THEN Len(old_files) ELSE n0
         IN ScanResult(None, Slice(old_files, n), Slice(new_files, n),
                (IF old_files = <<>> THEN <<[kind |-> "OLD empty", new |-> 0, old |-> 0]>>
                 ELSE <<>>)
                \o (IF new_files = <<>> THEN <<[kind |-> "NEW empty", new |-> 0, old |-> 0]>>
                    ELSE <<>>)
                \o (IF Len(new_files) < n
                    THEN <<[kind |-> "NEW fewer", new |-> Len(new_files),
                            old |-> Len(old_files)]>>
                    ELSE <<>>))

scan_old_new(old_dir, new_dir, n0) ==
    IF list_images_raises(old_dir) # None
    THEN ScanResult(list_images_raises(old_dir), <<>>, <<>>, <<>>)
    ELSE IF list_images_raises(new_dir) # None
    THEN ScanResult(list_images_raises(new_dir), <<>>, <<>>, <<>>)
    ELSE LET old_files == list_images_raw(old_dir, DefaultExts)
             new_files == list_images_raw(new_dir, DefaultExts)
             n1 == IF n0 = NoLimit THEN Len(old_files) ELSE n0
             n == IF Len(new_files) < n1 THEN Len(new_files) ELSE n1
         IN ScanResult(None, Slice(old_files, n), Slice(new_files, n),
                (IF old_files = <<>> THEN <<[kind |-> "OLD empty", new |-> 0, old |-> 0]>>
                 ELSE <<>>)
                \o (IF new_files = <<>> THEN <<[kind |-> "NEW empty", new |-> 0, old |-> 0]>>
                    ELSE <<>>)
                \o (IF Len(new_files) < n1
                    THEN <<[kind |-> "NEW fewer", new |-> Len(new_files),
                            old |-> Len(old_files)]>>
                    ELSE <<>>))

\* get_image_info raises: the file is absent, is not an image, or is cut short
get_image_info_raises(p) == ~exists(p) \/ ~CanLoad(fs[p])

\* ImageInfo; the model's images are one pixel high
get_image_info(p) ==
    [path |-> p, width |-> Len(Pixels(fs[p])), height |-> 1, mode |-> fs[p][2],
     fmt |-> Upper(fs[p][1]), size_bytes |-> st_size(p)]

\* preview_pairs: the line of one pair
preview_line(pr) ==
    IF get_image_info_raises(pr.old) \/ get_image_info_raises(pr.new)
    THEN [new |-> pr.new, old |-> pr.old, kind |-> "read error", info |-> <<>>]
    ELSE [new |-> pr.new, old |-> pr.old, kind |-> "info",
          info |-> <<get_image_info(pr.old).width, get_image_info(pr.old).fmt,
                     get_image_info(pr.new).width, get_image_info(pr.new).fmt>>]

\* preview_pairs: the loop from the i-th pair on; count is i when the test is made
RECURSIVE preview_loop(_, _, _, _)
preview_loop(prs, i, limit, lines) ==
    IF i > Len(prs)
    THEN lines
    ELSE IF limit # NoLimit /\ i >= limit
         THEN Append(lines, preview_line(prs[i]))
         ELSE preview_loop(prs, i + 1, limit, Append(lines, preview_line(prs[i])))

preview_pairs(prs, limit) == preview_loop(prs, 1, limit, <<>>)

ProbeWarning(pr, k, f) == [new |-> pr.new, kind |-> k, old_fmt |-> f]

\* the expression (force_format or "").lower()
ff_lower(ff) == IF ff = None THEN "" ELSE Lower(ff)

\* the probe of one pair as it would be if it looked at the extension alone
probe_one_by_extension(pr, ff) ==
    IF get_image_info_raises(pr.old)
    THEN <<ProbeWarning(pr, "read error", "?")>>
    ELSE LET fmt == get_image_info(pr.old).fmt
             new_ext == Lower(pr.new.suffix)
         IN (IF new_ext \in {".jpg", ".jpeg"} /\ fmt # "JPEG"
             THEN <<ProbeWarning(pr, "will be JPEG", fmt)>> ELSE <<>>)
            \o (IF new_ext = ".png" /\ fmt # "PNG"
                THEN <<ProbeWarning(pr, "will be PNG", fmt)>> ELSE <<>>)

\* probe_conversion_warnings: the body of the loop for one pair
probe_one(pr, ff) ==
    IF get_image_info_raises(pr.old)
    THEN <<ProbeWarning(pr, "read error", "?")>>
    ELSE LET fmt == get_image_info(pr.old).fmt
             new_ext == Lower(pr.new.suffix)
         IN IF ff_lower(ff) \in {"jpg", "jpeg"}
            THEN IF fmt # "JPEG" THEN <<ProbeWarning(pr, "forced JPEG", fmt)>> ELSE <<>>
            ELSE IF ff_lower(ff) = "png"
            THEN IF fmt # "PNG" THEN <<ProbeWarning(pr, "forced PNG", fmt)>> ELSE <<>>
            ELSE (IF new_ext \in {".jpg", ".jpeg"} /\ fmt # "JPEG"
                  THEN <<ProbeWarning(pr, "will be JPEG", fmt)>> ELSE <<>>)
                 \o (IF new_ext = ".png" /\ fmt # "PNG"
                     THEN <<ProbeWarning(pr, "will be PNG", fmt)>> ELSE <<>>)

RECURSIVE probe_loop(_, _, _)
probe_loop(prs, i, ff) ==
    IF i > Len(prs) THEN <<>> ELSE probe_one(prs[i], ff) \o probe_loop(prs, i + 1, ff)

probe_conversion_warnings(prs, ff) == probe_loop(prs, 1, ff)

\* the arguments the functions are called with
OldPool == {OldA, OldB}
NewPool == {NewX, NewY}
FileLists(pool) == UNION {[1..k -> pool] : k \in 0..MaxFiles}
Limits == {NoLimit} \cup (0..MaxLimit)
Pairs(ps) == [i \in 1..Len(ps) |-> Pair(ps[i][1], ps[i][2])]

\* a call of f with arguments a: not made yet, or returned (or raised) with out
PureCall(f, a) == [fn |-> f, args |-> a, done |-> FALSE, out |-> <<>>]
Returned(r) == [pure EXCEPT !.done = TRUE, !.out = r]

BuildPairsArgs ==
    {[old_files |-> o, new_files |-> nw, n |-> n, strict_equal |-> se] :
        o \in FileLists(OldPool), nw \in FileLists(NewPool), n \in Limits, se \in BOOLEAN}

ScanArgs ==
    {[old_dir |-> od, new_dir |-> nd, n |-> n] :
        od \in Trees("old"), nd \in Trees("new"), n \in Limits}

PreviewArgs == {[pairs |-> Pairs(ps), limit |-> limit] : ps \in PairLists, limit \in Limits}

ProbeArgs ==
    {[pairs |-> Pairs(ps), force_format |-> ff] : ps \in PairLists, ff \in ForceTokens}

\* allow-lists: the default, a shorter one, and one written in upper case
ExtLists == {DefaultExts, {".jpg"}, {".JPG", ".png"}}

ListArgs == {[dir_path |-> t, exts |-> x] : t \in Trees("old"), x \in ExtLists}

call_list_images_raw ==
    /\ pure.fn = "list_images_raw" /\ ~pure.done
    /\ pure' = Returned([raised |-> list_images_raises(pure.args.dir_path),
                         files |-> IF list_images_raises(pure.args.dir_path) # None
                                   THEN <<>>
                                   ELSE list_images_raw(pure.args.dir_path,
                                                        pure.args.exts)])

call_build_pairs ==
    /\ pure.fn = "build_pairs" /\ ~pure.done
    /\ pure' = Returned(build_pairs(pure.args.old_files, pure.args.new_files,
                                   pure.args.n, pure.args.strict_equal))

call_scan_old_new ==
    /\ pure.fn = "scan_old_new" /\ ~pure.done
    /\ pure' = Returned(scan_old_new(pure.args.old_dir, pure.args.new_dir, pure.args.n))

call_preview_pairs ==
    /\ pure.fn = "preview_pairs" /\ ~pure.done
    /\ pure' = Returned(preview_pairs(pure.args.pairs, pure.args.limit))

call_probe_conversion_warnings ==
    /\ pure.fn = "probe_conversion_warnings" /\ ~pure.done
    /\ pure' = Returned(probe_conversion_warnings(pure.args.pairs, pure.args.force_format))

InitMapping ==
    /\ ReplacerParked
    /\ SchedulerParked
    /\ AutosParked
    /\ WinParked
    /\ \/ \E a \in BuildPairsArgs : pure = PureCall("build_pairs", a)
       \/ \E a \in ScanArgs : pure = PureCall("scan_old_new", a)
       \/ \E a \in PreviewArgs : pure = PureCall("preview_pairs", a)
       \/ \E a \in ProbeArgs : pure = PureCall("probe_conversion_warnings", a)
       \/ \E a \in ListArgs : pure = PureCall("list_images_raw", a)

NextMapping ==
    \/ call_build_pairs /\ UNCHANGED <<rvars, svars, gvars>>
    \/ call_scan_old_new /\ UNCHANGED <<rvars, svars, gvars>>
    \/ call_preview_pairs /\ UNCHANGED <<rvars, svars, gvars>>
    \/ call_probe_conversion_warnings /\ UNCHANGED <<rvars, svars, gvars>>
    \/ call_list_images_raw /\ UNCHANGED <<rvars, svars, gvars>>

SpecMapping == InitMapping /\ [][NextMapping]_vars

\* --------------------------------------------- the window's replace handlers

\* replace_many([(o, n)], dry_run=dry, force_format=ff)[0] as one call on the file
\* system f: the file systems and outcomes it can end with
ReplaceOutcomes(f, o, n, dry, ff) ==
    LET bb == IF n \in DOMAIN f THEN Len(f[n]) ELSE 0
        tf == target_format_for(n, ff)
        act == replace_action(f[o], tf, ff)
        content == IF act = "copy-bytes" THEN f[o] ELSE EncodeImage(f[o], tf)
    IN IF dry
       THEN {[fs |-> f, res |-> ReplaceResult(o, n, "dry-run", bb, bb, TRUE, None)]}
       ELSE IF o \notin DOMAIN f
       THEN {[fs |-> f, res |-> ReplaceResult(o, n, "dry-run", bb, bb, FALSE, "OLD not found")]}
       ELSE IF n \notin DOMAIN f
       THEN {[fs |-> f, res |-> ReplaceResult(o, n, "dry-run", bb, bb, FALSE, "NEW not found")]}
       ELSE IF target_format_raises(ff)
       THEN {[fs |-> f,
              res |-> ReplaceResult(o, n, "error", bb, bb, FALSE, "unknown force_format")]}
       ELSE IF act = "copy-bytes" \/ CanLoad(f[o])
       THEN {[fs |-> [f EXCEPT ![n] = content],
              res |-> ReplaceResult(o, n, act, bb, Len(content), TRUE, None)],
             [fs |-> f, res |-> ReplaceResult(o, n, "error", bb, bb, FALSE, "I/O error")]}
       ELSE {[fs |-> f,
              res |-> ReplaceResult(o, n, "error", bb, bb, FALSE,
                                    "cannot identify image file")]}

\* what on_preview can find: scan_old_new lists files that exist, with a listed suffix
PreviewLists ==
    {ps \in PairLists :
        \A i \in DOMAIN ps : \A k \in 1..2 :
            ps[i][k] \in DOMAIN fs /\ Lower(ps[i][k].suffix) \in DefaultExts}

\* the items of format_combo
FormatChoices == {"auto", "jpg", "png"}

\* MainWindow.on_preview (the button is disabled while busy)
on_preview ==
    /\ ~win.busy
    /\ \E ps \in PreviewLists :
          win' = [win EXCEPT !.queue = [i \in 1..Len(ps) |-> <<ps[i][1], ps[i][2]>>],
                             !.replace_btn = Len(ps) > 0,
                             !.log = <<>>,
                             !.raised = FALSE]
    /\ UNCHANGED fs

\* MainWindow.on_replace (the button is enabled); the comprehension unpacks each
\* queue entry into (o, n) and raises ValueError on an entry of another length
on_replace ==
    /\ ~win.busy
    /\ win.replace_btn
    /\ win.runs < MaxRuns
    /\ \E dry \in BOOLEAN : \E choice \in FormatChoices :
          LET force == IF choice = "auto" THEN None ELSE choice
          IN IF win.queue = <<>>
             THEN win' = [win EXCEPT !.runs = @ + 1, !.raised = FALSE]
             ELSE IF \A i \in 1..Len(win.queue) : Len(win.queue[i]) = 2
             THEN win' = [win EXCEPT
                            !.queue = [i \in 1..Len(win.queue) |->
                                          <<win.queue[i][1], win.queue[i][2], dry, force>>],
                            !.index = 0,
                            !.busy = TRUE,
                            !.replace_btn = FALSE,
                            !.opts = [dry |-> dry, ff |-> force],
                            !.log = <<>>,
                            !.raised = FALSE,
                            !.runs = @ + 1]
             ELSE win' = [win EXCEPT !.opts = [dry |-> dry, ff |-> force],
                                     !.log = <<>>,
                                     !.raised = TRUE,
                                     !.runs = @ + 1]
    /\ UNCHANGED fs

\* MainWindow._process_next_replace, run by the single-shot timer while busy
process_next_replace ==
    /\ win.busy
    /\ IF win.index >= Len(win.queue)
       THEN /\ win' = [win EXCEPT !.busy = FALSE, !.replace_btn = (win.queue # <<>>)]
            /\ UNCHANGED fs
       ELSE LET e == win.queue[win.index + 1]
            IN \E out \in ReplaceOutcomes(fs, e[1], e[2], e[3], e[4]) :
                  /\ fs' = out.fs
                  /\ win' = [win EXCEPT !.log = Append(@, out.res), !.index = @ + 1]

InitGui ==
    /\ ReplacerParked
    /\ SchedulerParked
    /\ AutosParked
    /\ PureParked
    /\ WinParked

NextGui ==
    \/ on_preview /\ UNCHANGED <<pairs, force_format, dry_run, pc, idx, results, call, pre,
                                svars, autos, mvars>>
    \/ on_replace /\ UNCHANGED <<pairs, force_format, dry_run, pc, idx, results, call, pre,
                                svars, autos, mvars>>
    \/ process_next_replace /\ UNCHANGED <<pairs, force_format, dry_run, pc, idx, results,
                                          call, pre, svars, autos, mvars>>

SpecGui == InitGui /\ [][NextGui]_vars

\* ------------------------------------------------------ replacer properties

\* a replace_one call has just returned: its outcome is the last of results, and pre is
\* the file system as the call found it
JustReturned == pc = "loop" /\ results # <<>>
LastRes == results[Len(results)]
SizeIn(f, p) == IF p \in DOMAIN f THEN Len(f[p]) ELSE 0
BothPresent == LastRes.old \in DOMAIN pre /\ LastRes.new \in DOMAIN pre
WriteErrors == {"cannot identify image file", "I/O error"}

\* C1: when an exception is raised while the new content is written (before the
\* rename), the destination has the content and size it had before the call, the
\* temporary file is gone, and the outcome is failed (ok false, error text set) with
\* bytes_after equal to bytes_before.
C1_WriteFailureLeavesDestination ==
    (JustReturned /\ ~dry_run /\ BothPresent /\ LastRes.error \in WriteErrors) =>
        /\ LastRes.new \in DOMAIN fs
        /\ fs[LastRes.new] = pre[LastRes.new]
        /\ Len(fs[LastRes.new]) = Len(pre[LastRes.new])
        /\ TmpPath(LastRes.new) \notin DOMAIN fs
        /\ DOMAIN fs = DOMAIN pre
        /\ ~LastRes.ok
        /\ LastRes.action = "error"
        /\ LastRes.error # None
        /\ LastRes.bytes_after = LastRes.bytes_before
        /\ LastRes.bytes_before = Len(pre[LastRes.new])

C1_Witness ==
    /\ JustReturned /\ ~dry_run /\ BothPresent
    /\ LastRes.error = "I/O error"
    /\ LastRes.old = OldB /\ LastRes.new = NewX
    /\ fs[NewX] = pre[NewX]

\* the complete new content a successful outcome stands for
ExpectedNew(res) ==
    IF res.action = "copy-bytes" THEN pre[res.old]
    ELSE IF res.action = "reencode->JPEG" THEN EncodeImage(pre[res.old], "JPEG")
    ELSE EncodeImage(pre[res.old], "PNG")

\* C2: at every step of a replace_one write (temporary file created, partly written,
\* fully written, renamed over the destination) the destination path holds its
\* complete prior content, or, once renamed, the complete new content: never a part.
C2_DestinationNeverPartial ==
    /\ pc \in {"mktemp", "write"} =>
          /\ call.new \in DOMAIN fs
          /\ fs[call.new] = pre[call.new]
    /\ (JustReturned /\ ~dry_run /\ BothPresent) =>
          /\ LastRes.new \in DOMAIN fs
          /\ fs[LastRes.new] = IF LastRes.ok THEN ExpectedNew(LastRes) ELSE pre[LastRes.new]

C2_Witness ==
    /\ pc = "write"
    /\ CanWrite
    /\ Len(fs[call.tmp]) > 0
    /\ Len(fs[call.tmp]) < Len(NewContent)
    /\ fs[call.new] = pre[call.new]
    /\ fs[call.new] # NewContent

\* what the claims mean by "no format is forced" and "the resolved target"
CopyCase(res) ==
    /\ force_format = None
    /\ src_format(pre[res.old]) = target_format_for(res.new, force_format)

\* C3 as claimed (read in its favour: a recognised force token, no disk failure):
\* byte-copy exactly in the copy case, with the destination then equal to the origin
\* byte for byte; in every other case, an undetectable origin included, the outcome
\* reports reencode->target.
C3_Original ==
    (/\ JustReturned /\ ~dry_run /\ BothPresent
     /\ ~target_format_raises(force_format)
     /\ LastRes.error # "I/O error") =>
        IF CopyCase(LastRes)
        THEN LastRes.action = "copy-bytes" /\ fs[LastRes.new] = pre[LastRes.old]
        ELSE LastRes.action = "reencode->" \o target_format_for(LastRes.new, force_format)

\* C3 (amended): replace_one (not simulated, both files present, force token
\* recognised) takes the byte-copy path exactly when no format is forced and the
\* detected origin format equals the resolved target, and a successful byte-copy
\* leaves the destination equal to the origin byte for byte; in every other case it
\* takes the re-encode path, which reports reencode->target and leaves the encoded
\* image when the origin can be decoded, and ends as a failed outcome with action
\* "error" and the destination unchanged when the origin cannot be decoded.
C3_CopyOrReencode ==
    (/\ JustReturned /\ ~dry_run /\ BothPresent
     /\ ~target_format_raises(force_format)) =>
        LET target == target_format_for(LastRes.new, force_format)
            readable == CopyCase(LastRes) \/ CanLoad(pre[LastRes.old])
        IN /\ LastRes.ok =>
                IF CopyCase(LastRes)
                THEN /\ LastRes.action = "copy-bytes"
                     /\ fs[LastRes.new] = pre[LastRes.old]
                ELSE /\ LastRes.action = "reencode->" \o target
                     /\ fs[LastRes.new] = EncodeImage(pre[LastRes.old], target)
           /\ ~LastRes.ok => LastRes.action = "error" /\ fs = pre
           /\ (readable /\ LastRes.error # "I/O error") => LastRes.ok
           /\ ~readable => ~LastRes.ok /\ LastRes.error = "cannot identify image file"

C3_Witness ==
    /\ JustReturned /\ ~dry_run /\ BothPresent
    /\ Len(results) = 2
    /\ results[1].action = "copy-bytes" /\ results[1].ok
    /\ LastRes.old = OldC /\ LastRes.action = "error"
    /\ force_format = None

\* C4: with dry_run nothing on disk changes, whether or not the files of a pair
\* exist and however often the call is repeated: every outcome is "dry-run", ok,
\* with bytes_after equal to bytes_before (the destination's size, 0 if absent).
C4_DryRunChangesNothing ==
    (dry_run /\ pc # "idle") =>
        /\ fs = pre
        /\ pc = "loop"
        /\ \A i \in 1..Len(results) :
              /\ results[i].action = "dry-run"
              /\ results[i].ok
              /\ results[i].error = None
              /\ results[i].bytes_after = results[i].bytes_before
              /\ results[i].bytes_before = SizeIn(fs, results[i].new)

C4_Witness ==
    /\ dry_run /\ pc = "loop"
    /\ Len(results) = 2
    /\ fs # InitialFs
    /\ results[2].old \notin DOMAIN fs
    /\ results[2].ok

\* C5: replace_many returns exactly one outcome per pair, in input order; pairs are
\* handled strictly one after another (at most the temporary file of the pair in
\* hand exists); a failed outcome does not keep the later pairs from being handled.
C5_OneOutcomePerPair ==
    /\ \A i \in 1..Len(results) :
          i <= Len(pairs) /\ results[i].old = pairs[i][1] /\ results[i].new = pairs[i][2]
    /\ pc # "idle" => Len(results) = idx - 1
    /\ (pc = "idle" /\ idx > Len(pairs)) => Len(results) = Len(pairs)
    /\ (pc = "idle" /\ idx <= Len(pairs)) => (idx = 1 /\ results = <<>>)
    /\ pc \in {"mktemp", "write"} => idx <= Len(pairs)
    /\ DOMAIN fs \ DOMAIN InitialFs \subseteq
          (IF pc = "write" THEN {TmpPath(pairs[idx][2])} ELSE {})

C5_Witness ==
    /\ pc = "idle"
    /\ Len(results) = 2
    /\ ~results[1].ok /\ results[1].action = "error"
    /\ results[2].ok /\ results[2].action = "copy-bytes"

\* C6: with dry_run off and the origin or the destination missing, the outcome is a
\* failure of the failed kind (action "error", not "dry-run"), its message tells a
\* missing origin from a missing destination, bytes_after equals bytes_before, and
\* nothing on disk changes.
C6_MissingFileIsFailed ==
    (JustReturned /\ ~dry_run /\ ~BothPresent) =>
        /\ ~LastRes.ok
        /\ LastRes.action = "error"
        /\ LastRes.error = (IF LastRes.old \notin DOMAIN pre
                             THEN "OLD not found" ELSE "NEW not found")
        /\ LastRes.bytes_after = LastRes.bytes_before
        /\ fs = pre

\* ----------------------------------------------------- scheduler properties

Min(a, b) == IF a <= b THEN a ELSE b

\* C7: the first tick(t) after start(s), with t >= s + start_delay (and a sender that
\* does not raise), sends min(count, floor((t - s - start_delay) / interval) + 1)
\* presses in that one call: every fire scheduled at s + start_delay + k*interval
\* <= t, anchored to the schedule and not to t; when that is all of them the state
\* is done and nothing remains.
C7_CatchUpAnchored ==
    (/\ last.op = "tick" /\ last.first /\ ~last.raised
     /\ last.now >= started_at + start_delay) =>
        LET due == Min(count, ((last.now - started_at - start_delay) \div interval) + 1)
        IN /\ last.presses = due
           /\ remaining = count - due
           /\ due = count => state = "done" /\ remaining = 0

\* C8 as claimed: over any start, tick and stop calls remaining never increases, and
\* whenever remaining is 0 the state is done.
C8_Original ==
    [][remaining' <= remaining /\ (remaining' = 0 => state' = "done")]_vars

\* C8 (amended): tick and stop never increase remaining (start alone sets it back
\* to count), and whenever remaining is 0 the state is done, or stopped by a stop()
\* called when the run was already done.
C8_RemainingMonotone ==
    [][/\ last'.op \in {"tick", "stop"} => remaining' <= remaining
       /\ last'.op = "start" => remaining' = count
       /\ remaining' = 0 =>
             \/ state' = "done"
             \/ /\ state' = "stopped"
                /\ state \in {"done", "stopped"}
                /\ remaining = 0]_vars

C8_Witness ==
    /\ remaining = 0
    /\ state = "stopped"
    /\ last.op = "stop"
    /\ count = MaxCount

\* C9 as claimed: idle is entered only by construction, and once the state is done or
\* stopped no later call (start, tick or stop) changes it.
C9_Original ==
    [][/\ state' = "idle" => state = "idle"
       /\ state \in {"done", "stopped"} => state' = state]_vars

\* C9 (amended): idle is entered only by construction, and done and stopped are
\* terminal for tick: no tick changes either, and stop() leaves stopped as it is;
\* start() restarts the scheduler from either, and stop() turns done into stopped.
C9_TerminalForTick ==
    [][/\ state' = "idle" => state = "idle"
       /\ (state \in {"done", "stopped"} /\ last'.op = "tick") => state' = state
       /\ (state = "stopped" /\ last'.op = "stop") => state' = "stopped"
       /\ (state = "done" /\ last'.op = "stop") => state' = "stopped"
       /\ (state \in {"done", "stopped"} /\ last'.op = "start") =>
             state' = (IF start_delay > 0 THEN "countdown" ELSE "running")]_vars

C9_Witness ==
    /\ state = "done"
    /\ last.op = "tick"
    /\ last.presses = 0
    /\ last.now > started_at + start_delay + (count - 1) * interval

\* C10: stop() in any state sets the state to stopped at once, and every tick that
\* follows (until a start()) is a no-op: no press is sent and state, remaining and
\* next_fire stay as they are.
C10_StopThenTicksAreNoOps ==
    [][/\ last'.op = "stop" => state' = "stopped"
       /\ (state = "stopped" /\ last'.op = "tick") =>
             /\ state' = "stopped"
             /\ remaining' = remaining
             /\ next_fire' = next_fire
             /\ emitted' = emitted
             /\ last'.presses = 0
             /\ ~last'.raised]_vars

C10_Witness ==
    /\ state = "stopped"
    /\ last.op = "tick"
    /\ remaining > 0
    /\ next_fire # NoTime
    /\ last.now >= next_fire

\* a tick that changes nothing the scheduler keeps
TickIsNoOp ==
    /\ state' = state
    /\ remaining' = remaining
    /\ next_fire' = next_fire
    /\ emitted' = emitted
    /\ last'.presses = 0

C12_Original ==
    [][/\ (last'.op = "tick" /\ last'.raised) => state' # "running"
       /\ (last.op = "tick" /\ last.raised /\ last'.op = "tick")
            => (last'.presses = 0 /\ ~last'.raised)]_vars

\* C12 (amended): when the sender raises during a tick the error reaches the caller
\* and the scheduler itself stays in running, with remaining and next_fire as the
\* presses sent before the failure left them (a later tick on it would attempt the
\* press again); it is the window's timer handler that halts the run: it stops the
\* timer and drops the scheduler, so that no further tick is made until a new start.
C12_CallerHaltsTheRun ==
    [][/\ (last'.op = "tick" /\ last'.raised) =>
             /\ state' = "running"
             /\ remaining' = remaining - last'.presses
             /\ remaining' > 0
             /\ emitted' = emitted + last'.presses
             /\ autos'.driver = "gui" => (~autos'.runner /\ ~autos'.timer)
       /\ (autos'.driver = "gui" /\ last'.raised) => (~autos'.runner /\ ~autos'.timer)
       /\ (autos.driver = "gui" /\ ~autos.runner) =>
             (last'.op = "start" \/ UNCHANGED svars)]_vars

C12_Witness ==
    /\ autos = Autos("gui", FALSE, FALSE)
    /\ last.op = "tick"
    /\ last.raised
    /\ last.presses > 0
    /\ state = "running"
    /\ remaining > 0

\* ------------------------------------------------- claims on mapping, scanner

Called(f) == pure.fn = f /\ pure.done
IsPrefix(s, t) == Len(s) <= Len(t) /\ \A i \in 1..Len(s) : s[i] = t[i]
HasWarning(ws, k) == \E i \in 1..Len(ws) : ws[i].kind = k

\* C13: build_pairs without strict_equal returns exactly min(|O|,|N|) pairs when no
\* limit is given and exactly n pairs when a limit n not above that minimum is given,
\* and the i-th pair is (O[i], N[i]).
C13_PositionalPairs ==
    (Called("build_pairs") /\ ~pure.args.strict_equal) =>
        LET O == pure.args.old_files
            N == pure.args.new_files
            n == pure.args.n
            ps == pure.out.pairs
        IN /\ pure.out.raised = None
           /\ n = NoLimit => Len(ps) = Min(Len(O), Len(N))
           /\ (n # NoLimit /\ n <= Min(Len(O), Len(N))) => Len(ps) = n
           /\ \A i \in 1..Len(ps) : ps[i].old = O[i] /\ ps[i].new = N[i]

C13_Witness ==
    /\ Called("build_pairs")
    /\ ~pure.args.strict_equal
    /\ pure.args.n = 2
    /\ Len(pure.args.old_files) = 3
    /\ Len(pure.args.new_files) > 2
    /\ Len(pure.out.pairs) = 2
    /\ pure.out.pairs[1] # pure.out.pairs[2]

\* C14: build_pairs without strict_equal emits the length-mismatch warning if and
\* only if the two lists differ in length, whatever the limit; with strict_equal and
\* lists of different length it raises the count-mismatch error and returns neither
\* pairs nor warnings.
C14_MismatchWarningIffLengthsDiffer ==
    Called("build_pairs") =>
        LET O == pure.args.old_files
            N == pure.args.new_files
        IN /\ ~pure.args.strict_equal =>
                /\ pure.out.raised = None
                /\ HasWarning(pure.out.warnings, "pairs used") <=> Len(O) # Len(N)
           /\ (pure.args.strict_equal /\ Len(O) # Len(N)) =>
                /\ pure.out.raised = "ValueError"
                /\ pure.out.pairs = <<>>
                /\ pure.out.warnings = <<>>
           /\ pure.out.raised # None => (pure.args.strict_equal /\ Len(O) # Len(N))

C14_Witness ==
    /\ Called("build_pairs")
    /\ ~pure.args.strict_equal
    /\ pure.args.n = 1
    /\ Len(pure.args.old_files) = 2
    /\ Len(pure.args.new_files) = 1
    /\ HasWarning(pure.out.warnings, "pairs used")

\* C15: build_pairs appends the "count limited to n" warning whenever either input
\* list is longer than the effective pair count n, and only then, where n is the limit
\* if given and min(|O|,|N|) otherwise.
C15_LimitWarningWhenLonger ==
    (Called("build_pairs") /\ pure.out.raised = None) =>
        LET O == pure.args.old_files
            N == pure.args.new_files
            n == IF pure.args.n = NoLimit THEN Min(Len(O), Len(N)) ELSE pure.args.n
        IN HasWarning(pure.out.warnings, "limit") <=> (Len(O) > n \/ Len(N) > n)

\* C16: scan_old_new takes the number of OLD files as the limit when none is given;
\* if NEW lists fewer files than the limit, both returned lists are cut to the number
\* of NEW files (each a prefix of its listing) and one warning naming both counts is
\* emitted; otherwise there is no such warning and both lists are prefixes of at most
\* limit entries.
C16_ScanShortfall ==
    (Called("scan_old_new") /\ pure.out.raised = None) =>
        LET oldL == list_images_raw(pure.args.old_dir, DefaultExts)
            newL == list_images_raw(pure.args.new_dir, DefaultExts)
            lim == IF pure.args.n = NoLimit THEN Len(oldL) ELSE pure.args.n
            ws == pure.out.warnings
            short == {k \in 1..Len(ws) : ws[k].kind = "NEW fewer"}
        IN /\ IsPrefix(pure.out.old, oldL)
           /\ IsPrefix(pure.out.new, newL)
           /\ IF Len(newL) < lim
              THEN /\ Len(pure.out.old) = Min(Len(oldL), Len(newL))
                   /\ Len(pure.out.new) = Len(newL)
                   /\ Cardinality(short) = 1
                   /\ \A k \in short : ws[k].new = Len(newL) /\ ws[k].old = Len(oldL)
              ELSE /\ short = {}
                   /\ Len(pure.out.old) = Min(lim, Len(oldL))
                   /\ Len(pure.out.new) = lim

C16_Witness ==
    /\ Called("scan_old_new")
    /\ pure.args.n = NoLimit
    /\ pure.out.raised = None
    /\ Len(list_images_raw(pure.args.old_dir, DefaultExts)) = 2
    /\ Len(list_images_raw(pure.args.new_dir, DefaultExts)) = 1
    /\ Len(pure.out.old) = 1
    /\ Len(pure.out.new) = 1
    /\ HasWarning(pure.out.warnings, "NEW fewer")

\* the pair at position i of a probe call, and what the call said about it
ProbePair(i) == pure.args.pairs[i]
ConversionWarned(i) ==
    \E k \in 1..Len(pure.out) :
        pure.out[k].new = ProbePair(i).new /\ pure.out[k].kind # "read error"
ReadErrorWarned(i) ==
    \E k \in 1..Len(pure.out) :
        pure.out[k].new = ProbePair(i).new /\ pure.out[k].kind = "read error"

\* replace_one on the pair with the same force_format takes the re-encode path
Reencodes(i) ==
    /\ exists(ProbePair(i).old) /\ exists(ProbePair(i).new)
    /\ ~target_format_raises(pure.args.force_format)
    /\ replace_action(fs[ProbePair(i).old],
                      target_format_for(ProbePair(i).new, pure.args.force_format),
                      pure.args.force_format) # "copy-bytes"

KnownExt(p) == Lower(p.suffix) \in {".jpg", ".jpeg", ".png"}

\* C17 as claimed: probe_conversion_warnings emits a conversion warning for a pair
\* exactly when replace_one on that pair with the same force_format would take the
\* re-encode path rather than the byte-copy path.
C17_Original ==
    Called("probe_conversion_warnings") =>
        \A i \in 1..Len(pure.args.pairs) : ConversionWarned(i) <=> Reencodes(i)

\* C17 (amended): probe_conversion_warnings compares formats only.  For an origin it
\* can read, with a valid forced token or else a .jpg/.jpeg/.png destination, it emits
\* a conversion warning exactly when the origin's format differs from the target
\* format replace_one resolves; such a warning implies that replace_one (destination
\* present) takes the re-encode path, and with no forced format and a known
\* destination extension the converse holds as well.  For an origin it cannot read it
\* emits a read-error warning and no conversion warning.
C17_ProbeComparesFormats ==
    Called("probe_conversion_warnings") =>
        \A i \in 1..Len(pure.args.pairs) :
            LET pr == ProbePair(i)
                ff == pure.args.force_format
            IN IF get_image_info_raises(pr.old)
               THEN ReadErrorWarned(i) /\ ~ConversionWarned(i)
               ELSE /\ ~ReadErrorWarned(i)
                    /\ (~target_format_raises(ff) /\ (ff \notin {None, ""} \/ KnownExt(pr.new)))
                         => (ConversionWarned(i) <=>
                               get_image_info(pr.old).fmt # target_format_for(pr.new, ff))
                    /\ (ConversionWarned(i) /\ exists(pr.new) /\ ~target_format_raises(ff))
                         => Reencodes(i)
                    /\ (ff = None /\ KnownExt(pr.new) /\ exists(pr.new))
                         => (ConversionWarned(i) <=> Reencodes(i))

C17_Witness ==
    /\ Called("probe_conversion_warnings")
    /\ Len(pure.args.pairs) = 2
    /\ pure.args.force_format = "PNG"
    /\ ~get_image_info_raises(ProbePair(1).old)
    /\ ~get_image_info_raises(ProbePair(2).old)
    /\ ConversionWarned(1) /\ Reencodes(1)
    /\ ~ConversionWarned(2) /\ Reencodes(2)

\* C18: preview_pairs(pairs, limit) returns exactly min(limit, number of pairs) lines
\* for every limit >= 0, one line per previewed pair in pair order, and never raises:
\* a pair whose probe fails yields a warning line and the next pairs are previewed.
C18_PreviewLineCount ==
    (Called("preview_pairs") /\ pure.args.limit # NoLimit) =>
        /\ Len(pure.out) = Min(pure.args.limit, Len(pure.args.pairs))
        /\ \A i \in 1..Len(pure.out) :
              /\ i <= Len(pure.args.pairs)
              /\ pure.out[i].new = pure.args.pairs[i].new
              /\ pure.out[i].old = pure.args.pairs[i].old
              /\ pure.out[i].kind = "read error" <=>
                    (get_image_info_raises(pure.args.pairs[i].old)
                        \/ get_image_info_raises(pure.args.pairs[i].new))

\* C19 as claimed: with dry_run off and both files present, a force_format that is
\* not a JPEG-family token or the PNG token makes replace_one raise to its caller:
\* no outcome is returned for such a call.
C19_Original ==
    ~(/\ JustReturned /\ ~dry_run /\ BothPresent
      /\ force_format # None
      /\ Lower(force_format) \notin {"jpg", "jpeg", "png"})

\* C19 (amended): with dry_run off and both files present, a non-empty force_format
\* that is not a JPEG-family token or the PNG token makes replace_one return a failed
\* outcome (action "error", ok false, the unknown-format message, bytes_after equal
\* to bytes_before); nothing is raised to the caller and nothing on disk changes.  The
\* empty token is not rejected: the target format comes from the destination's
\* extension and the re-encode path is taken.
C19_InvalidTokenIsFailedOutcome ==
    (JustReturned /\ ~dry_run /\ BothPresent /\ force_format # None) =>
        /\ (force_format # "" /\ Lower(force_format) \notin {"jpg", "jpeg", "png"}) =>
              /\ LastRes.action = "error"
              /\ ~LastRes.ok
              /\ LastRes.error = "unknown force_format"
              /\ LastRes.bytes_after = LastRes.bytes_before
              /\ fs = pre
        /\ force_format = "" =>
              /\ LastRes.error # "unknown force_format"
              /\ LastRes.ok => LastRes.action =
                    "reencode->" \o target_format_for(LastRes.new, None)

C19_Witness ==
    /\ JustReturned /\ ~dry_run /\ BothPresent
    /\ force_format = "WebP"
    /\ Len(results) = 2
    /\ LastRes.action = "error"
    /\ LastRes.error = "unknown force_format"
    /\ results[1].old \in DOMAIN fs /\ results[1].new \in DOMAIN fs

\* C20: replace_one writes only inside the destination's directory and never changes
\* a file name: while a call runs the only path added is its temporary file, next to
\* the destination, and every file that was there keeps its content; after any call,
\* successful or failed, the set of paths is as before the call, only the
\* destination's content may differ, and the origin's content is unchanged.
C20_OnlyDestinationContentChanges ==
    /\ pc \in {"mktemp", "write"} =>
          /\ DOMAIN pre \subseteq DOMAIN fs
          /\ \A p \in DOMAIN pre : fs[p] = pre[p]
          /\ \A p \in DOMAIN fs \ DOMAIN pre : p = call.tmp /\ p.dir = call.new.dir
    /\ JustReturned =>
          /\ DOMAIN fs = DOMAIN pre
          /\ \A p \in DOMAIN fs : p # LastRes.new => fs[p] = pre[p]
          /\ LastRes.old \in DOMAIN fs => fs[LastRes.old] = pre[LastRes.old]

C20_Witness ==
    /\ JustReturned /\ ~dry_run /\ BothPresent
    /\ Len(results) = 2
    /\ results[1].ok /\ results[1].action = "reencode->PNG"
    /\ ~LastRes.ok /\ LastRes.error \in WriteErrors
    /\ fs # InitialFs
    /\ fs = pre

\* an extension that is in the allow-list when letter case is ignored
InAllowList(sfx, exts) == \E x \in exts : Lower(x) = Lower(sfx)
Position(es, p) == CHOOSE i \in 1..Len(es) : es[i].path = p

\* C21: list_images_raw returns only regular files directly inside the directory
\* (no folder, no file of a folder inside it) whose extension, letter case ignored, is
\* in the allow-list, in the order of the directory listing; it raises
\* FileNotFoundError for a path that does not exist and NotADirectoryError for a path
\* that is not a directory.  For an allow-list written in lower case, as the default
\* is, every such file is returned.
C21_OnlyDirectImageFiles ==
    Called("list_images_raw") =>
        LET t == pure.args.dir_path
            exts == pure.args.exts
            files == pure.out.files
        IN /\ t.kind = "missing" <=> pure.out.raised = "FileNotFoundError"
           /\ t.kind = "file" <=> pure.out.raised = "NotADirectoryError"
           /\ t.kind = "dir" <=> pure.out.raised = None
           /\ \A k \in 1..Len(files) :
                 /\ \E i \in 1..Len(t.entries) : t.entries[i] = Entry(files[k], "file")
                 /\ InAllowList(files[k].suffix, exts)
                 /\ \A i \in 1..Len(t.entries) :
                       \A j \in 1..Len(Nested(t.entries[i])) :
                          Nested(t.entries[i])[j].path # files[k]
           /\ \A k, l \in 1..Len(files) :
                 k < l => Position(t.entries, files[k]) < Position(t.entries, files[l])
           /\ (\A x \in exts : Lower(x) = x) =>
                 \A i \in 1..Len(t.entries) :
                    (t.entries[i].kind = "file" /\ InAllowList(t.entries[i].path.suffix, exts))
                       => \E k \in 1..Len(files) : files[k] = t.entries[i].path

C21_Witness ==
    /\ Called("list_images_raw")
    /\ pure.args.exts = DefaultExts
    /\ Len(pure.args.dir_path.entries) = 3
    /\ pure.args.dir_path.entries[1].kind = "dir"
    /\ pure.args.dir_path.entries[2].path.suffix = ".PNG"
    /\ pure.args.dir_path.entries[3].path.suffix = ".jpg"
    /\ Len(pure.out.files) = 2
    /\ pure.out.files[1].suffix = ".PNG"

\* C22: from one start() to the next, across any interleaving of tick and stop calls
\* (ticks in which the sender raises included), the presses sent so far plus the
\* remaining count equal count; so a run never sends more than count presses, and the
\* state is done only after exactly count presses.
C22_EmittedPlusRemaining ==
    /\ emitted + remaining = count
    /\ emitted <= count
    /\ remaining >= 0
    /\ state = "done" => emitted = count

C22_Witness ==
    /\ state = "done"
    /\ last.op = "tick"
    /\ count = 3
    /\ emitted = 3
    /\ last.presses = 1
    /\ ~last.first

\* C23: after a replace batch has run to completion the previewed pairs stay queued
\* and Replace stays enabled, and every Replace invocation, a repeated one without a
\* new preview included, starts a batch over the whole queue with the options chosen
\* at that invocation; a batch that ends has logged one outcome per queued pair, in
\* queue order, made with those options, and has cleared the busy state.
C23_ReplaceAgainRunsTheQueue ==
    [][/\ win'.runs # win.runs =>
             /\ ~win'.raised
             /\ win'.busy
             /\ win'.index = 0
             /\ Len(win'.queue) = Len(win.queue)
             /\ \A i \in 1..Len(win.queue) :
                   win'.queue[i] = <<win.queue[i][1], win.queue[i][2],
                                     win'.opts.dry, win'.opts.ff>>
       /\ (win.busy /\ ~win'.busy) =>
             /\ win'.queue # <<>>
             /\ win'.replace_btn
             /\ Len(win'.log) = Len(win'.queue)
             /\ \A i \in 1..Len(win'.log) :
                   /\ win'.log[i].old = win'.queue[i][1]
                   /\ win'.log[i].new = win'.queue[i][2]
                   /\ (win'.log[i].action = "dry-run" /\ win'.log[i].ok) <=> win'.opts.dry]_vars

====
